---- MODULE Spec2Model ----
(***************************************************************************)
(* A model of the data layer of the BD_PRODUCCION dashboard (src/app.py):  *)
(* header normalisation and parsing (get_dataframe), write-back            *)
(* (update_sheet_data), the memoised read path (load_data under            *)
(* st.cache_data(ttl=300)), boolean coercion (format_boolean_columns) and  *)
(* the save handler of main.                                               *)
(*                                                                         *)
(* A Python string is a sequence of one-character strings, so that strip,  *)
(* upper, lower, "in" and the f-string of the suffix are computed and not  *)
(* assumed.  The check mark U+2713 is written "CHECK" (one character).     *)
(***************************************************************************)
EXTENDS Naturals, Integers, Sequences, FiniteSets, TLC

VARIABLES
    \* the normalisation loop of get_dataframe (app.py 50-65)
    header, seen, unique_header, npc,
    \* the table pipeline: worksheet values, the DataFrame, the table it came from
    data, df, df0, keywords, tpc,
    \* st.cache_data around load_data, and the clock
    now, cache, fetches, lastFetchAt, lastFetchFailed, invalidated, lastLoad,
    \* the remote worksheet and the save handler of each session
    remote, spc, sdata, before, result, lastUpdate, cached

normVars == <<header, seen, unique_header, npc>>
tableVars == <<data, df, df0, keywords, tpc>>
cacheVars == <<now, cache, fetches, lastFetchAt, lastFetchFailed, invalidated, lastLoad>>
saveVars == <<remote, spc, sdata, before, result, lastUpdate, cached>>
vars == <<normVars, tableVars, cacheVars, saveVars>>

(***************************************************************************)
(* Python strings                                                          *)
(***************************************************************************)
LowerLetters == <<"a","b","c","d","e","f","g","h","i","j","k","l","m",
                  "n","o","p","q","r","s","t","u","v","w","x","y","z">>
UpperLetters == <<"A","B","C","D","E","F","G","H","I","J","K","L","M",
                  "N","O","P","Q","R","S","T","U","V","W","X","Y","Z">>

\* str.isspace of one character
IsSpace(c) == c \in {" ", "\t", "\n"}

\* one character of str.upper()
UpperChar(c) ==
    IF \E i \in 1..26 : LowerLetters[i] = c
    THEN UpperLetters[CHOOSE i \in 1..26 : LowerLetters[i] = c]
    ELSE c

\* one character of str.lower()
LowerChar(c) ==
    IF \E i \in 1..26 : UpperLetters[i] = c
    THEN LowerLetters[CHOOSE i \in 1..26 : UpperLetters[i] = c]
    ELSE c

\* str.upper()
Upper(s) == [i \in 1..Len(s) |-> UpperChar(s[i])]

\* str.lower()
Lower(s) == [i \in 1..Len(s) |-> LowerChar(s[i])]

\* str.strip(): leading and trailing whitespace removed
Strip(s) ==
    LET keep == {i \in 1..Len(s) : ~IsSpace(s[i])}
    IN  IF keep = {} THEN <<>>
        ELSE LET lo == CHOOSE i \in keep : \A j \in keep : i <= j
                 hi == CHOOSE i \in keep : \A j \in keep : j <= i
             IN  SubSeq(s, lo, hi)

\* k in s, for strings
Contains(s, k) ==
    \E i \in 0..Len(s) : i + Len(k) <= Len(s) /\ SubSeq(s, i + 1, i + Len(k)) = k

Digits == <<"0","1","2","3","4","5","6","7","8","9">>

RECURSIVE Dec(_)
\* str(n) of a non-negative int
Dec(n) == IF n < 10 THEN <<Digits[n + 1]>> ELSE Dec(n \div 10) \o <<Digits[(n % 10) + 1]>>

sEmpty == <<>>
sBlank == <<" ">>
sUnnamed == <<"U","n","n","a","m","e","d">>
sUnnamed1 == <<"U","n","n","a","m","e","d","_","1">>
sName == <<"N","a","m","e">>
sName1 == <<"N","a","m","e","_","1">>

(***************************************************************************)
(* The normalisation loop of get_dataframe                                 *)
(***************************************************************************)
\* a placeholder test that forgets strip(): "if not col"
PlaceholderNoStrip(col) == IF col = <<>> THEN sUnnamed ELSE col

\* "if not col.strip(): col = 'Unnamed'"
Placeholder(col) == IF Strip(col) = <<>> THEN sUnnamed ELSE col

\* the count a name gets at its first occurrence: "seen[col] = 0"
FirstCount == 0

\* One iteration of "for col in header": st is [seen, unique_header], seen a
\* dict from names to counts.
NormStep(st, rawcol) ==
    LET col == Placeholder(rawcol)
    IN  IF col \in DOMAIN st.seen
        THEN LET n == st.seen[col] + 1
             IN  [seen |-> [st.seen EXCEPT ![col] = n],
                  unique_header |-> Append(st.unique_header, col \o <<"_">> \o Dec(n))]
        ELSE [seen |-> [c \in (DOMAIN st.seen) \cup {col} |->
                            IF c = col THEN FirstCount ELSE st.seen[c]],
              unique_header |-> Append(st.unique_header, col)]

RECURSIVE NormFold(_, _)
NormFold(st, h) == IF h = <<>> THEN st ELSE NormFold(NormStep(st, Head(h)), Tail(h))

\* "seen = {}; unique_header = []"
NormStart == [seen |-> <<>>, unique_header |-> <<>>]

\* the whole loop, as get_dataframe runs it on data[0]
UniqueHeader(h) == NormFold(NormStart, h).unique_header

(***************************************************************************)
(* Cells and DataFrames                                                    *)
(*                                                                         *)
(* A cell is [k, v]: a string (v its characters), a null (None or pd.NA,   *)
(* both isna) or a bool (v its str()).  A DataFrame is its column labels   *)
(* and its rows; labels may repeat, as pandas allows.                      *)
(***************************************************************************)
Str(s) == [k |-> "str", v |-> s]
Null == [k |-> "null", v |-> <<>>]
Bool(b) == [k |-> "bool", v |-> IF b THEN <<"T","r","u","e">> ELSE <<"F","a","l","s","e">>]

\* pd.DataFrame()
EmptyDf == [columns |-> <<>>, rows |-> <<>>]

\* DataFrame.empty: some axis has length 0
DfEmpty(t) == Len(t.columns) = 0 \/ Len(t.rows) = 0

MaxOf(S) == IF S = {} THEN 0 ELSE CHOOSE m \in S : \A x \in S : x <= m

\* pd.DataFrame(rows, columns=cols) on a list of lists of str: no rows give an
\* empty frame with the columns; otherwise the rows are padded with None to the
\* longest row, and a width other than len(cols) raises ValueError
\* ("N columns passed, passed data had M columns").
PdDataFrame(rows, cols) ==
    IF rows = <<>> THEN [ok |-> TRUE, df |-> [columns |-> cols, rows |-> <<>>]]
    ELSE LET width == MaxOf({Len(rows[r]) : r \in 1..Len(rows)})
         IN  IF width # Len(cols) THEN [ok |-> FALSE, df |-> EmptyDf]
             ELSE [ok |-> TRUE,
                   df |-> [columns |-> cols,
                           rows |-> [r \in 1..Len(rows) |->
                                       [c \in 1..width |->
                                          IF c <= Len(rows[r]) THEN Str(rows[r][c])
                                          ELSE Null]]]]

\* a parse that forgets "df = df.replace('', pd.NA)"
NoReplaceEmpty(t) == t

\* df.replace('', pd.NA)
ReplaceEmpty(t) ==
    [columns |-> t.columns,
     rows |-> [r \in 1..Len(t.rows) |->
                 [c \in 1..Len(t.rows[r]) |->
                    IF t.rows[r][c] = Str(<<>>) THEN Null ELSE t.rows[r][c]]]]

\* get_dataframe on the values worksheet.get_all_values() returned; any
\* exception of the body is caught and gives pd.DataFrame()
get_dataframe(d) ==
    IF d = <<>> THEN EmptyDf
    ELSE LET made == PdDataFrame(Tail(d), UniqueHeader(d[1]))
         IN  IF made.ok THEN ReplaceEmpty(made.df) ELSE EmptyDf

\* one value of df.fillna('').values.tolist(), as the worksheet holds it: a null
\* is '', a bool is the sheet's TRUE or FALSE
FillnaValue(cell) ==
    IF cell.k = "null" THEN <<>>
    ELSE IF cell.k = "bool" THEN Upper(cell.v)
    ELSE cell.v

\* the list of lists update_sheet_data builds
SheetData(t, include_header) ==
    LET body == [r \in 1..Len(t.rows) |->
                   [c \in 1..Len(t.rows[r]) |-> FillnaValue(t.rows[r][c])]]
    IN  IF include_header THEN <<t.columns>> \o body ELSE body

(***************************************************************************)
(* format_boolean_columns                                                  *)
(***************************************************************************)
\* str(x) of a cell; str(pd.NA) is "<NA>"
StrOf(cell) == IF cell.k = "null" THEN <<"<","N","A",">">> ELSE cell.v

TrueTokens == {<<"t","r","u","e">>, <<"y","e","s">>, <<"1">>, <<"x">>, <<"CHECK">>}

\* the lambda of the apply
BoolOf(cell) == Bool(Lower(Strip(StrOf(cell))) \in TrueTokens)

\* a format that drops the "if any(...)" and coerces every column
KeywordMatchAlways(col, kws) == TRUE

\* any(keyword in col.upper() for keyword in keywords)
KeywordMatch(col, kws) == \E kw \in kws : Contains(Upper(col), kw)

\* the label col names more than one column of the frame
Duplicated(t, col) == Cardinality({c \in 1..Len(t.columns) : t.columns[c] = col}) > 1

\* format_boolean_columns.  For a label that names one column, df[col] is a
\* Series and every cell is replaced.  For a repeated label df[col] is a
\* DataFrame, apply calls the lambda on each column Series (never a token, so
\* False) and the assignment depends on the pandas build: it raises (caught,
\* the columns stay as they were: dup = "raise") or sets every cell of those
\* columns to False (dup = "broadcast").
format_boolean_columns(t, kws, dup) ==
    [columns |-> t.columns,
     rows |-> [r \in 1..Len(t.rows) |->
                 [c \in 1..Len(t.rows[r]) |->
                    IF ~KeywordMatch(t.columns[c], kws) THEN t.rows[r][c]
                    ELSE IF ~Duplicated(t, t.columns[c]) THEN BoolOf(t.rows[r][c])
                    ELSE IF dup = "raise" THEN t.rows[r][c]
                    ELSE Bool(FALSE)]]]

sINICIO == <<"I","N","I","C","I","O">>
sCORTE == <<"C","O","R","T","E">>
sTERMINACION == <<"T","E","R","M","I","N","A","C","I","O","N">>
\* "TERMINACIÓN": the accented O is one character, written "O_ACUTE"
sTERMINACION_ACUTE == <<"T","E","R","M","I","N","A","C","I","O_ACUTE","N">>

\* the keyword lists main passes for the two tabs
KeywordLists == {{sINICIO, sCORTE}, {sINICIO, sTERMINACION_ACUTE, sTERMINACION}}

\* what the installed pandas does on assigning to a repeated label
DupPolicies == {"raise", "broadcast"}

(***************************************************************************)
(* Bounds and input sets                                                   *)
(***************************************************************************)
\* all sequences over S of length at most n
SeqsUpTo(S, n) == UNION {[1..k -> S] : k \in 0..n}

\* header cells a worksheet's first row is drawn from
MaxHeaderLen == 3
HeaderCells == {sEmpty, sBlank, sName, sName1, sUnnamed, sUnnamed1}

sInicio == <<"I","n","i","c","i","o">>
sInicio1 == <<"I","n","i","c","i","o","_","1">>
sX == <<" ","X">>
sNo == <<"n","o">>

\* rectangular fetches (what get_all_values returns): a header of 1..MaxCols
\* cells and up to MaxRows data rows
MaxCols == 3
MaxRows == 1
FormatHeaderCells == {sInicio, sInicio1, sName}
DataCells == {sEmpty, sX}
RectFetches(hcells, cells) ==
    UNION {{<<h>> \o rs : rs \in SeqsUpTo([1..Len(h) -> cells], MaxRows)} :
             h \in SeqsUpTo(hcells, MaxCols) \ {<<>>}}

\* ragged fetches: data rows shorter or longer than the header
MaxRaggedCols == 2
MaxRaggedRows == 2
RaggedHeaderCells == {sName, sEmpty}
RaggedFetches(hcells, cells) ==
    {<<>>} \cup
    UNION {{<<h>> \o rs :
              rs \in SeqsUpTo(SeqsUpTo(cells, MaxRaggedCols + 1), MaxRaggedRows)} :
             h \in SeqsUpTo(hcells, MaxRaggedCols) \ {<<>>}}

\* tables handed to update_sheet_data: distinct non-empty column labels, cells
\* strings (the empty string among them) or null
MaxTableCols == 2
MaxTableRows == 1
TableLabels == {sBlank, sName, sName1}
TableCells == {Str(sEmpty), Str(sNo), Null}
Distinct(q) == \A i, j \in 1..Len(q) : i # j => q[i] # q[j]
Tables(labels, cells) ==
    UNION {{[columns |-> cs, rows |-> rs] :
              rs \in SeqsUpTo([1..Len(cs) -> cells], MaxTableRows)} :
             cs \in {q \in SeqsUpTo(labels, MaxTableCols) : Distinct(q)}}

(***************************************************************************)
(* Idle values of the variable groups a specification does not use         *)
(***************************************************************************)
NormIdle ==
    /\ header = <<>> /\ seen = <<>> /\ unique_header = <<>> /\ npc = "idle"

TableIdle ==
    /\ data = <<>> /\ df = EmptyDf /\ df0 = EmptyDf /\ keywords = {} /\ tpc = "idle"

(***************************************************************************)
(* SpecNorm: the loop, one column per step                                 *)
(***************************************************************************)
NormInit ==
    /\ header \in SeqsUpTo(HeaderCells, MaxHeaderLen)
    /\ seen = NormStart.seen
    /\ unique_header = NormStart.unique_header
    /\ npc = "loop"

\* one iteration of "for col in header" (app.py 55-65)
NormalizeStep ==
    /\ npc = "loop"
    /\ Len(unique_header) < Len(header)
    /\ LET st == NormStep([seen |-> seen, unique_header |-> unique_header],
                          header[Len(unique_header) + 1])
       IN  /\ seen' = st.seen
           /\ unique_header' = st.unique_header
    /\ UNCHANGED <<header, npc>>
    /\ UNCHANGED <<tableVars, cacheVars, saveVars>>

\* the loop has run over every header cell
NormDone == npc = "loop" /\ Len(unique_header) = Len(header)

(***************************************************************************)
(* The table pipeline: fetch -> get_dataframe -> format_boolean_columns,   *)
(* and table -> update_sheet_data -> fetch                                 *)
(***************************************************************************)
\* the values of a worksheet have been fetched
FetchedInit(fetches_) ==
    /\ data \in fetches_
    /\ df = EmptyDf /\ df0 = EmptyDf /\ keywords = {} /\ tpc = "fetched"

\* an edited table is about to be saved
TableInit ==
    /\ df0 \in Tables(TableLabels, TableCells)
    /\ data = <<>> /\ df = EmptyDf /\ keywords = {} /\ tpc = "table"

\* get_dataframe(worksheet) (app.py 39-77)
GetDataframe ==
    /\ tpc = "fetched"
    /\ df' = get_dataframe(data)
    /\ tpc' = "parsed"
    /\ UNCHANGED <<data, df0, keywords>>
    /\ UNCHANGED <<normVars, cacheVars, saveVars>>

\* main: "if not data1.empty: data1 = format_boolean_columns(data1, [...])"
\* (app.py 207-209, 243-245); df0 keeps the table as it was parsed
FormatBooleanColumns ==
    /\ tpc = "parsed"
    /\ ~DfEmpty(df)
    /\ \E kws \in KeywordLists, dup \in DupPolicies :
          /\ df' = format_boolean_columns(df, kws, dup)
          /\ keywords' = kws
    /\ df0' = df
    /\ tpc' = "formatted"
    /\ UNCHANGED data
    /\ UNCHANGED <<normVars, cacheVars, saveVars>>

\* update_sheet_data(worksheet, df) with include_header=True, the worksheet
\* then holding exactly the rows written (app.py 88-100)
UpdateSheetData ==
    /\ tpc = "table"
    /\ data' = SheetData(df0, TRUE)
    /\ tpc' = "fetched"
    /\ UNCHANGED <<df, df0, keywords>>
    /\ UNCHANGED <<normVars, cacheVars, saveVars>>

(***************************************************************************)
(* load_data under @st.cache_data(ttl=300)                                 *)
(***************************************************************************)
\* @st.cache_data(ttl=300)
TTL == 300

\* what one run of the remote read meets: authentication, open_by_key, and
\* the read of each worksheet (worksheet() or get_all_values) succeed or fail
Outcomes == [auth : BOOLEAN, open : BOOLEAN, sheet1 : BOOLEAN, sheet2 : BOOLEAN]

\* initialize_gsheets_client(): the client, or None when authentication raised
initialize_gsheets_client(o) == IF o.auth THEN "client" ELSE "None"

\* the body of load_data: every failure is caught and turned into empty
\* DataFrames, and the tuple is returned normally
load_data(o) ==
    IF initialize_gsheets_client(o) = "None"
    THEN [data1 |-> "empty", data2 |-> "empty", sheets |-> "None"]
    ELSE IF ~o.open
    THEN [data1 |-> "empty", data2 |-> "empty", sheets |-> "None"]
    ELSE [data1 |-> IF o.sheet1 THEN "table" ELSE "empty",
          data2 |-> IF o.sheet2 THEN "table" ELSE "empty",
          sheets |-> "sheets"]

\* some remote call of the read failed
FetchFailed(o) == ~(o.auth /\ o.open /\ o.sheet1 /\ o.sheet2)

NoValue == [data1 |-> "empty", data2 |-> "empty", sheets |-> "None"]
NoEntry == [has |-> FALSE, at |-> 0, value |-> NoValue]

\* the memo holds an entry younger than the ttl (an entry expires once
\* time >= stored + ttl)
CacheHit(c, t) == c.has /\ t < c.at + TTL

\* a clear that leaves the stored entry in place
CacheClearKeeps(c) == c

\* st.cache_data.clear()
CacheClear(c) == NoEntry

NoLoad == [valid |-> FALSE, at |-> 0, fetched |-> 0, hadFetch |-> FALSE,
           priorFetchAt |-> 0, priorInvalidated |-> FALSE, priorFailed |-> FALSE,
           value |-> NoValue]

MaxClock == 600
MaxFetches == 3
ClockSteps == {100, 200}

CacheIdle ==
    /\ now = 0 /\ cache = NoEntry /\ fetches = 0 /\ lastFetchAt = -1
    /\ lastFetchFailed = FALSE /\ invalidated = FALSE /\ lastLoad = NoLoad

\* main: "data1, data2, sheets_client = load_data()" (app.py 199), through the
\* memo: a hit returns the stored tuple, a miss runs the body and stores what
\* it returns.  lastLoad records the call and what preceded it.
Load ==
    /\ \/ /\ CacheHit(cache, now)
          /\ lastLoad' = [valid |-> TRUE, at |-> now, fetched |-> 0,
                          hadFetch |-> lastFetchAt >= 0,
                          priorFetchAt |-> lastFetchAt,
                          priorInvalidated |-> invalidated,
                          priorFailed |-> lastFetchFailed,
                          value |-> cache.value]
          /\ UNCHANGED <<cache, fetches, lastFetchAt, lastFetchFailed, invalidated>>
       \/ /\ ~CacheHit(cache, now)
          /\ fetches < MaxFetches
          /\ \E o \in Outcomes :
                /\ cache' = [has |-> TRUE, at |-> now, value |-> load_data(o)]
                /\ lastFetchFailed' = FetchFailed(o)
                /\ lastLoad' = [valid |-> TRUE, at |-> now, fetched |-> 1,
                                hadFetch |-> lastFetchAt >= 0,
                                priorFetchAt |-> lastFetchAt,
                                priorInvalidated |-> invalidated,
                                priorFailed |-> lastFetchFailed,
                                value |-> load_data(o)]
          /\ fetches' = fetches + 1
          /\ lastFetchAt' = now
          /\ invalidated' = FALSE
    /\ UNCHANGED now
    /\ UNCHANGED <<normVars, tableVars, saveVars>>

\* the Refresh button: st.cache_data.clear() (app.py 180-182)
Refresh ==
    /\ cache' = CacheClear(cache)
    /\ invalidated' = TRUE
    /\ UNCHANGED <<now, fetches, lastFetchAt, lastFetchFailed, lastLoad>>
    /\ UNCHANGED <<normVars, tableVars, saveVars>>

\* a save that succeeded: "if success: ... st.cache_data.clear()" (app.py
\* 222-230), offered only on a non-empty table with a sheets client
SaveSucceeded ==
    /\ lastLoad.valid
    /\ lastLoad.value.sheets # "None"
    /\ (lastLoad.value.data1 = "table" \/ lastLoad.value.data2 = "table")
    /\ cache' = CacheClear(cache)
    /\ invalidated' = TRUE
    /\ UNCHANGED <<now, fetches, lastFetchAt, lastFetchFailed, lastLoad>>
    /\ UNCHANGED <<normVars, tableVars, saveVars>>

\* time passes
Advance ==
    /\ \E d \in ClockSteps : now + d <= MaxClock /\ now' = now + d
    /\ UNCHANGED <<cache, fetches, lastFetchAt, lastFetchFailed, invalidated, lastLoad>>
    /\ UNCHANGED <<normVars, tableVars, saveVars>>

(***************************************************************************)
(* The save handler of main and update_sheet_data against the remote       *)
(* worksheet, one handler per browser session                              *)
(***************************************************************************)
Sessions == {1, 2}

\* the worksheet is a grid of cell strings, '' where nothing is written
GridRows == MaxTableRows + 1
GridCols == MaxTableCols
BlankGrid == [r \in 1..GridRows |-> [c \in 1..GridCols |-> sEmpty]]

\* worksheet.clear()
WorksheetClear(g) == BlankGrid

\* worksheet.update(data): the values are written to the range that starts at
\* A1 and has the shape of data; cells outside it keep what they hold
WorksheetUpdate(g, d) ==
    [r \in 1..GridRows |-> [c \in 1..GridCols |->
        IF r <= Len(d) /\ c <= Len(d[r]) THEN d[r][c] ELSE g[r][c]]]

\* the tables the sessions edit and save
SaveTables == {t \in Tables({sName, sName1}, {Str(sNo), Null}) : Len(t.columns) >= 1}

\* what the worksheet holds before anyone saves
InitialRemote ==
    WorksheetUpdate(BlankGrid, <<[c \in 1..GridCols |-> sName]>> \o
                               [r \in 1..(GridRows - 1) |-> [c \in 1..GridCols |-> sX]])

SaveIdle ==
    /\ remote = BlankGrid
    /\ spc = [s \in Sessions |-> "off"]
    /\ sdata = [s \in Sessions |-> <<>>]
    /\ before = [s \in Sessions |-> BlankGrid]
    /\ result = [s \in Sessions |-> "none"]
    /\ lastUpdate = 0
    /\ cached = FALSE

SaveInit ==
    /\ remote = InitialRemote
    /\ spc = [s \in Sessions |-> "idle"]
    /\ sdata = [s \in Sessions |-> <<>>]
    /\ before = [s \in Sessions |-> BlankGrid]
    /\ result = [s \in Sessions |-> "none"]
    /\ lastUpdate = 0
    /\ cached = TRUE

\* the Save button: sheets_client.worksheet(...) succeeds and update_sheet_data
\* builds the list of lists of the edited table (app.py 221-226, 88-93)
SaveClick(s) ==
    /\ spc[s] = "idle"
    /\ \E t \in SaveTables : sdata' = [sdata EXCEPT ![s] = SheetData(t, TRUE)]
    /\ before' = [before EXCEPT ![s] = remote]
    /\ spc' = [spc EXCEPT ![s] = "clear"]
    /\ UNCHANGED <<remote, result, lastUpdate, cached>>
    /\ UNCHANGED <<normVars, tableVars, cacheVars>>

\* sheets_client.worksheet(...) raises: main reports it, update_sheet_data is
\* not called (app.py 231-233)
SaveWorksheetError(s) ==
    /\ spc[s] = "idle"
    /\ spc' = [spc EXCEPT ![s] = "done"]
    /\ result' = [result EXCEPT ![s] = "error"]
    /\ UNCHANGED <<remote, sdata, before, lastUpdate, cached>>
    /\ UNCHANGED <<normVars, tableVars, cacheVars>>

\* worksheet.clear() (app.py 96)
Clear(s) ==
    /\ spc[s] = "clear"
    /\ remote' = WorksheetClear(remote)
    /\ spc' = [spc EXCEPT ![s] = "update"]
    /\ UNCHANGED <<sdata, before, result, lastUpdate, cached>>
    /\ UNCHANGED <<normVars, tableVars, cacheVars>>

\* worksheet.clear() raises: update_sheet_data returns False (app.py 101-104)
ClearRaises(s) ==
    /\ spc[s] = "clear"
    /\ spc' = [spc EXCEPT ![s] = "done"]
    /\ result' = [result EXCEPT ![s] = "False"]
    /\ UNCHANGED <<remote, sdata, before, lastUpdate, cached>>
    /\ UNCHANGED <<normVars, tableVars, cacheVars>>

\* worksheet.update(data) succeeds, update_sheet_data returns True and main
\* clears the cache (app.py 97-100, 227-230)
Update(s) ==
    /\ spc[s] = "update"
    /\ remote' = WorksheetUpdate(remote, sdata[s])
    /\ lastUpdate' = s
    /\ spc' = [spc EXCEPT ![s] = "done"]
    /\ result' = [result EXCEPT ![s] = "True"]
    /\ cached' = FALSE
    /\ UNCHANGED <<sdata, before>>
    /\ UNCHANGED <<normVars, tableVars, cacheVars>>

\* worksheet.update(data) raises: update_sheet_data returns False, the cache
\* is left alone (app.py 101-104, 227)
UpdateRaises(s) ==
    /\ spc[s] = "update"
    /\ spc' = [spc EXCEPT ![s] = "done"]
    /\ result' = [result EXCEPT ![s] = "False"]
    /\ UNCHANGED <<remote, sdata, before, lastUpdate, cached>>
    /\ UNCHANGED <<normVars, tableVars, cacheVars>>

\* the next script run of a session whose cache entry was cleared loads again
Reload ==
    /\ cached = FALSE
    /\ \E s \in Sessions : spc[s] \in {"idle", "done"}
    /\ cached' = TRUE
    /\ UNCHANGED <<remote, spc, sdata, before, result, lastUpdate>>
    /\ UNCHANGED <<normVars, tableVars, cacheVars>>

(***************************************************************************)
(* Specifications                                                          *)
(***************************************************************************)
InitNorm == NormInit /\ TableIdle /\ CacheIdle /\ SaveIdle
NextNorm == NormalizeStep
SpecNorm == InitNorm /\ [][NextNorm]_vars

InitFormat == FetchedInit(RectFetches(FormatHeaderCells, DataCells)) /\ NormIdle /\ CacheIdle /\ SaveIdle
NextFormat == GetDataframe \/ FormatBooleanColumns
SpecFormat == InitFormat /\ [][NextFormat]_vars

InitRagged == FetchedInit(RaggedFetches(RaggedHeaderCells, DataCells)) /\ NormIdle /\ CacheIdle /\ SaveIdle
SpecRagged == InitRagged /\ [][NextFormat]_vars

InitRoundTrip == TableInit /\ NormIdle /\ CacheIdle /\ SaveIdle
NextRoundTrip == UpdateSheetData \/ GetDataframe
SpecRoundTrip == InitRoundTrip /\ [][NextRoundTrip]_vars

InitCache == CacheIdle /\ NormIdle /\ TableIdle /\ SaveIdle
NextCache == Load \/ Refresh \/ SaveSucceeded \/ Advance
SpecCache == InitCache /\ [][NextCache]_vars

Init == SaveInit /\ NormIdle /\ TableIdle /\ CacheIdle
Next ==
    \/ \E s \in Sessions : SaveClick(s)
    \/ \E s \in Sessions : SaveWorksheetError(s)
    \/ \E s \in Sessions : Clear(s)
    \/ \E s \in Sessions : ClearRaises(s)
    \/ \E s \in Sessions : Update(s)
    \/ \E s \in Sessions : UpdateRaises(s)
    \/ Reload
Spec == Init /\ [][Next]_vars

(***************************************************************************)
(* Properties                                                              *)
(***************************************************************************)
\* a header cell that is empty or all whitespace
BlankCell(cell) == \A i \in 1..Len(cell) : IsSpace(cell[i])

\* the name of header cell j after the placeholder rule
NameAt(h, j) == IF BlankCell(h[j]) THEN sUnnamed ELSE h[j]

\* how many cells before j carry the name of cell j
Earlier(h, j) == Cardinality({i \in 1..(j - 1) : NameAt(h, i) = NameAt(h, j)})

\* C1: for every raw header row the normalised header has the length of the
\* input, pairwise distinct entries and no empty entry.
C1_UniqueNonEmpty ==
    NormDone =>
        /\ Len(unique_header) = Len(header)
        /\ Distinct(unique_header)
        /\ \A i \in 1..Len(unique_header) : unique_header[i] # <<>>

\* C8: scanning left to right, a blank cell becomes "Unnamed", the first
\* occurrence of a name is emitted unchanged and its k-th later occurrence is
\* emitted as name_k; this holds of every prefix the loop has produced.
C8_ScanRule ==
    npc = "loop" =>
        /\ Len(unique_header) <= Len(header)
        /\ \A j \in 1..Len(unique_header) :
              unique_header[j] =
                 IF Earlier(header, j) = 0 THEN NameAt(header, j)
                 ELSE NameAt(header, j) \o <<"_">> \o Dec(Earlier(header, j))

\* C8's case: ["Name", "", "Name"] has become ["Name", "Unnamed", "Name_1"]
C8_Witness ==
    /\ NormDone
    /\ header = <<sName, sEmpty, sName>>
    /\ unique_header = <<sName, sUnnamed, sName1>>

\* no label of the table is blank and no cell is the empty string
RoundTrippable(t) ==
    /\ \A c \in 1..Len(t.columns) : ~BlankCell(t.columns[c])
    /\ \A r \in 1..Len(t.rows) : \A c \in 1..Len(t.rows[r]) :
          t.rows[r][c] # Str(sEmpty)

\* C2 as stated: parsing the rows written for any table with distinct
\* non-empty labels and string or null cells gives the table back.
C2_RoundTripAnyTable == tpc = "parsed" => df = df0

\* C2 amended: the round trip gives the table back when, in addition, no label
\* is all whitespace and no cell is the empty string.
C2_RoundTrip == (tpc = "parsed" /\ RoundTrippable(df0)) => df = df0

\* C2's case: a two-column table with a null and a string cell went round
C2_Witness ==
    /\ tpc = "parsed"
    /\ RoundTrippable(df0)
    /\ df0.columns = <<sName1, sName>>
    /\ df0.rows = << <<Null, Str(sNo)>> >>
    /\ data = <<df0.columns, <<sEmpty, sNo>> >>
    /\ df = df0

\* the table C5 promises for a non-empty fetch d: the normalised header, one
\* row per data row, short rows padded with null, long rows cut
RaggedParse(d) ==
    LET cols == UniqueHeader(d[1])
    IN  [columns |-> cols,
         rows |-> [r \in 1..(Len(d) - 1) |->
                     [c \in 1..Len(cols) |->
                        IF c <= Len(d[r + 1]) /\ d[r + 1][c] # sEmpty
                        THEN Str(d[r + 1][c]) ELSE Null]]]

\* C5: parsing a non-empty ragged fetch keeps the table: the normalised
\* header's columns and one row per data row, padded or cut to the header.
C5_RaggedKept == (tpc = "parsed" /\ data # <<>>) => df = RaggedParse(data)

\* the upper-cased label contains a keyword at some offset
HasKeyword(col, kws) ==
    \E kw \in kws : \E off \in 0..Len(col) :
        /\ off + Len(kw) <= Len(col)
        /\ \A i \in 1..Len(kw) : UpperChar(col[off + i]) = kw[i]

\* the string form of a cell, trimmed and lower-cased, is a true token
Truthy(cell) ==
    /\ cell.k # "null"
    /\ Lower(Strip(cell.v)) \in
          {<<"t","r","u","e">>, <<"y","e","s">>, <<"1">>, <<"x">>, <<"CHECK">>}

\* C6: every cell of every column whose upper-cased label contains a keyword
\* has become the boolean of its token, false for null and anything else.
C6_Coerced ==
    tpc = "formatted" =>
        \A c \in 1..Len(df0.columns) :
            HasKeyword(df0.columns[c], keywords) =>
                \A r \in 1..Len(df0.rows) : df.rows[r][c] = Bool(Truthy(df0.rows[r][c]))

\* C6 on tables whose labels are pairwise distinct: there every cell of every
\* matching column is the boolean of its token.
C6_CoercedDistinct ==
    (tpc = "formatted" /\ Distinct(df0.columns)) =>
        \A c \in 1..Len(df0.columns) :
            HasKeyword(df0.columns[c], keywords) =>
                \A r \in 1..Len(df0.rows) : df.rows[r][c] = Bool(Truthy(df0.rows[r][c]))

\* C7: format_boolean_columns keeps the row count, the column count and the
\* labels in order, and leaves every cell of a column whose upper-cased label
\* contains no keyword as it was.
C7_Frame ==
    tpc = "formatted" =>
        /\ df.columns = df0.columns
        /\ Len(df.rows) = Len(df0.rows)
        /\ \A r \in 1..Len(df0.rows) :
              /\ Len(df.rows[r]) = Len(df0.rows[r])
              /\ \A c \in 1..Len(df0.columns) :
                    ~HasKeyword(df0.columns[c], keywords) => df.rows[r][c] = df0.rows[r][c]

\* C7's case: beside a coerced column, a column without keyword kept its
\* string and another kept its null
C7_Witness ==
    /\ tpc = "formatted"
    /\ df0.columns = <<sName, sInicio, sName1>>
    /\ df0.rows = << <<Str(sX), Str(sX), Null>> >>
    /\ df.rows = << <<Str(sX), Bool(TRUE), Null>> >>

\* C3: a load invokes the remote fetch exactly when no fetch precedes it, or
\* the cache was cleared since the last fetch, or the ttl has elapsed since
\* the last fetch; otherwise it invokes none.
C3_FetchOncePerWindow ==
    lastLoad.valid =>
        LET within == /\ lastLoad.hadFetch
                      /\ ~lastLoad.priorInvalidated
                      /\ lastLoad.at - lastLoad.priorFetchAt < TTL
        IN  /\ within => lastLoad.fetched = 0
            /\ ~within => lastLoad.fetched = 1

\* C3's case: a second load 200 units after the fetch, nothing cleared, was
\* served from the memo
C3_Witness ==
    /\ lastLoad.valid
    /\ lastLoad.hadFetch
    /\ ~lastLoad.priorInvalidated
    /\ lastLoad.at - lastLoad.priorFetchAt = 200
    /\ lastLoad.fetched = 0
    /\ fetches = 1

\* C4: a load served from the cache is never served the result of a fetch
\* that failed.
C4_FailureNotCached ==
    (lastLoad.valid /\ lastLoad.fetched = 0) => ~lastLoad.priorFailed

\* C9: when both sessions' saves report success, the worksheet holds exactly
\* the rows of the session whose update was applied last.
C9_LastWriteWins ==
    (result[1] = "True" /\ result[2] = "True") =>
        remote = WorksheetUpdate(BlankGrid, sdata[lastUpdate])

\* C10: when update_sheet_data has returned False in one session and the
\* other session has not touched the worksheet, the worksheet holds what it
\* held before the call and the cache is not cleared.
C10_FailedSaveKeepsRemote ==
    \A s \in Sessions :
        (result[s] = "False" /\ \A o \in Sessions \ {s} : spc[o] = "idle") =>
            (remote = before[s] /\ cached)

====
